---- MODULE Spec2Model ----
(***************************************************************************)
(* Model of the Liquid Time-Stochasticity cell (src/src/lts.py) and of the *)
(* project scaffolding script (src/templet.py).                            *)
(*                                                                         *)
(* Numbers: a tf.float32 value x is modelled by the integer round(x*Scale) *)
(* (fixed point); products and quotients round to the nearest unit.        *)
(* Tensors: a rank-2 tensor is a sequence of rows, a row a sequence of     *)
(* numbers; a [N, units] parameter matrix is indexed [i][j].               *)
(***************************************************************************)
EXTENDS Integers, Sequences, FiniteSets, TLC

VARIABLES
  \* ---- LTSCell object fields
  built, input_size, units, sde_solver_unfolds,
  par,               \* the eleven variables made by _init_variables, or "None"
  brownian_motion,   \* self._brownian_motion
  input_weights, input_biases,
  \* ---- position and locals of the running call
  pc, inputs, states, v_pre, sens, denominator, outer_i, inner_i,
  \* ---- what the caller sees, and bookkeeping of the verification
  call_args, result, remembered, cnt, n_created, n_sampled, added_noise, assigned,
  \* ---- templet.py: the directory tree and the script's position
  tree, tpc, tidx, run, before_keep, after_first

cellvars == <<built, input_size, units, sde_solver_unfolds, par, brownian_motion,
              input_weights, input_biases, pc, inputs, states, v_pre, sens,
              denominator, outer_i, inner_i, call_args, result, remembered, cnt,
              n_created, n_sampled, added_noise, assigned>>
fsvars == <<tree, tpc, tidx, run, before_keep, after_first>>
vars == <<cellvars, fsvars>>

-----------------------------------------------------------------------------
(* Bounds of the model *)

\* fixed-point resolution: one unit is 1/Scale
Scale == 1000
\* the `units` constructor argument and the input feature count given to build
Units == 4
InputSize == 3

(* Program constants *)
TimeStep == 1
SdeSolverUnfolds == 6
ErevInitFactor == 1

\* arithmetic on fixed-point numbers (round to nearest)
Mul(a, b) == (a * b + (Scale \div 2)) \div Scale
\* b # 0 wherever the model divides
Div(a, b) == IF b > 0 THEN (a * Scale + (b \div 2)) \div b
                      ELSE -((a * Scale + ((-b) \div 2)) \div (-b))

RECURSIVE SumTo(_, _)
SumTo(f, k) == IF k = 0 THEN 0 ELSE f[k] + SumTo(f, k - 1)

\* tf.reduce_sum(m, axis = 1) of one batch row m[i][j]: sum over i, per unit j
ReduceSumAxis1(m, n) == [j \in 1..Units |-> SumTo([i \in 1..n |-> m[i][j]], n)]

\* row b of a tensor under broadcasting (a one-row tensor repeats its row)
Row(t, b) == t[IF Len(t) = 1 THEN 1 ELSE b]
Rows(a, b) == IF Len(a) >= Len(b) THEN Len(a) ELSE Len(b)
Shape(t) == <<Len(t), Len(t[1])>>

\* initial ranges of __init__ and _init_variables
WInitMax == Scale
WInitMin == Scale \div 100
CmInitMinLow == Scale \div 20
CmInitMin == Scale \div 2
GleakInitMin == Scale
MuMin == (3 * Scale) \div 10
MuMax == (8 * Scale) \div 10
SigmaMin == 3 * Scale
SigmaMax == 8 * Scale
VleakMin == -((2 * Scale) \div 10)
VleakMax == (2 * Scale) \div 10

-----------------------------------------------------------------------------
(* _sigmoid *)

\* tf.nn.sigmoid at 0, 1, ..., 8 in thousandths; beyond 8 it rounds to 1
SigTab == <<500, 731, 881, 953, 982, 993, 998, 999, 1000>>
SigmoidPos(x) ==
  LET k == x \div Scale
      r == x % Scale
  IN IF k >= 8 THEN Scale
     ELSE ((SigTab[k + 1] * (Scale - r) + SigTab[k + 2] * r) + 500) \div 1000
NnSigmoid(x) == IF x >= 0 THEN SigmoidPos(x) ELSE Scale - SigmoidPos(-x)

\* v: rows of length n; mu, sigma: [n][Units]; result [b][i][j]
Sigmoid(v, mu, sigma, n) ==
  [b \in 1..Len(v) |-> [i \in 1..n |-> [j \in 1..Units |->
      NnSigmoid(Mul(sigma[i][j], v[b][i] - mu[i][j]))]]]

-----------------------------------------------------------------------------
(* __init__, build, _init_variables *)

Const(n, x) == [i \in 1..n |-> x]
Matrix(n, x) == [i \in 1..n |-> [j \in 1..Units |-> x]]

\* 2 * randint(0, 2) - 1, times _erev_init_factor: every entry is -1 or +1
ErevInit(pattern, n) ==
  [i \in 1..n |-> [j \in 1..Units |->
     ErevInitFactor * Scale *
       (IF pattern = "pos" \/ (i + j) % 2 = 0 THEN 1 ELSE -1)]]

\* the sub-step counts a cell is run with (the attribute is set in __init__
\* and may be reassigned before the first call)
UnfoldsChoices == {1, 2, SdeSolverUnfolds}
\* tf.random.uniform draws from [minval, maxval)
LevelChoices == {"lo", "hi"}
WChoices == {WInitMin, WInitMax}
ErevChoices == {"pos", "alt"}
\* samples of tf.random.normal(mean 0, stddev sqrt(_time_step)), per unit z or -z
NoiseChoices == {0, Scale}
NoiseInit(z) == [j \in 1..Units |-> IF j % 2 = 1 THEN z ELSE -z]

InitVariables(w, ep, lv) ==
  [ sensory_mu    |-> Matrix(InputSize, IF lv = "lo" THEN MuMin ELSE MuMax - 1),
    sensory_sigma |-> Matrix(InputSize, IF lv = "lo" THEN SigmaMin ELSE SigmaMax - 1),
    sensory_W     |-> Matrix(InputSize, w),
    sensory_erev  |-> ErevInit(ep, InputSize),
    mu            |-> Matrix(Units, IF lv = "lo" THEN MuMin ELSE MuMax - 1),
    sigma         |-> Matrix(Units, IF lv = "lo" THEN SigmaMin ELSE SigmaMax - 1),
    W             |-> Matrix(Units, w),
    erev          |-> ErevInit(ep, Units),
    vleak         |-> Const(Units, IF lv = "lo" THEN VleakMin ELSE VleakMax - 1),
    gleak         |-> GleakInitMin,
    cm_t          |-> CmInitMin ]

NoResult == [kind |-> "none", output |-> <<>>, next_state |-> <<>>]
NothingRemembered == [set |-> FALSE, args |-> 0, result |-> NoResult, between |-> FALSE]
NoCount == [updates |-> 0, drifts |-> 0, inner |-> 0, this_drift |-> 0]

CellInit ==
  /\ built = FALSE
  /\ input_size = -1
  /\ units = Units
  /\ sde_solver_unfolds \in UnfoldsChoices
  /\ par = <<>>
  /\ brownian_motion = <<>>
  /\ input_weights = <<>>
  /\ input_biases = <<>>
  /\ pc = "idle"
  /\ inputs = <<>>
  /\ states = [wrapped |-> TRUE, t |-> <<>>]
  /\ v_pre = <<>>
  /\ sens = [num |-> <<>>, den |-> <<>>]
  /\ denominator = <<>>
  /\ outer_i = 0
  /\ inner_i = 0
  /\ call_args = 0
  /\ result = NoResult
  /\ remembered = NothingRemembered
  /\ cnt = NoCount
  /\ n_created = 0
  /\ n_sampled = 0
  /\ added_noise = <<>>
  /\ assigned = FALSE

callvars == <<pc, inputs, states, v_pre, sens, denominator, outer_i, inner_i,
              call_args, result, remembered, cnt, added_noise>>

\* build(): run once, by the first __call__ of the layer
Build ==
  /\ pc = "idle"
  /\ ~built
  /\ \E w \in WChoices, ep \in ErevChoices, lv \in LevelChoices, z \in NoiseChoices :
       /\ par' = InitVariables(w, ep, lv)
       /\ brownian_motion' = NoiseInit(z)
  /\ input_size' = InputSize
  /\ n_sampled' = n_sampled + 1
  /\ built' = TRUE
  /\ UNCHANGED <<units, sde_solver_unfolds, input_weights, input_biases, n_created,
                 assigned, callvars, fsvars>>

\* the training or test harness assigns the two trainable weight matrices
\* (the zero-weight setting); results remembered under the old weights are dropped
AssignZeroWeights ==
  /\ pc = "idle"
  /\ built
  /\ ~assigned
  /\ par' = [par EXCEPT !.sensory_W = Matrix(InputSize, 0), !.W = Matrix(Units, 0)]
  /\ assigned' = TRUE
  /\ remembered' = NothingRemembered
  /\ result' = NoResult
  /\ UNCHANGED <<built, input_size, units, sde_solver_unfolds, brownian_motion,
                 input_weights, input_biases, pc, inputs, states, v_pre, sens,
                 denominator, outer_i, inner_i, call_args, cnt, n_created, n_sampled,
                 added_noise, fsvars>>

-----------------------------------------------------------------------------
(* the arguments the harness calls the cell with *)

\* the recurrent harness passes the state as a tuple holding one [batch, units]
\* tensor, and an input with the same batch dimension
Input1 == [i \in 1..InputSize |-> (i * Scale) \div 10]
Input2 == [i \in 1..InputSize |-> -(Scale \div 2)]
State0 == Const(Units, 0)
State1 == [j \in 1..Units |-> (j * Scale) \div 4 - (Scale \div 2)]
ArgChoices ==
  << [inputs |-> <<Input1>>,         states |-> <<State0>>],
     [inputs |-> <<Input2>>,         states |-> <<State1>>],
     [inputs |-> <<Input1, Input2>>, states |-> <<State0, State1>>] >>

-----------------------------------------------------------------------------
(* _map_weights_and_biases *)

\* the values the two lazily created variables start with
InputWeightsInit == Const(input_size, Scale)
InputBiasesInit == Const(input_size, 0)

\* `if self._input_weights is None`
NeedsInputWeightsAlways == TRUE
NeedsInputWeights == input_weights = <<>>
NeedsInputBiases == input_biases = <<>>

\* inputs * self._input_weights + self._input_biases
MapWeightsAndBiases(x, w, b) ==
  [r \in 1..Len(x) |-> [i \in 1..Len(x[r]) |-> Mul(x[r][i], w[i]) + b[i]]]

-----------------------------------------------------------------------------
(* _sde_solver_drift *)

\* v_pre = states[0]: the tensor of the tuple the caller passed, or the first
\* row of the tensor the previous sub-step left
StatesHeadStale(st) == IF v_pre = <<>> THEN st.t ELSE v_pre
StatesHead(st) == IF st.wrapped THEN st.t ELSE <<st.t[1]>>

SensorySumsUnweighted(x) ==
  LET sig == Sigmoid(x, par.sensory_mu, par.sensory_sigma, input_size)
  IN [num |-> [b \in 1..Len(x) |-> ReduceSumAxis1(
                 [i \in 1..input_size |-> [j \in 1..Units |->
                    Mul(sig[b][i][j], par.sensory_erev[i][j])]], input_size)],
      den |-> [b \in 1..Len(x) |-> ReduceSumAxis1(sig[b], input_size)]]

\* lines 352-356: the sensory numerator and denominator, per batch row and unit
SensorySums(x) ==
  LET sig == Sigmoid(x, par.sensory_mu, par.sensory_sigma, input_size)
      sensory_w_activation ==
        [b \in 1..Len(x) |-> [i \in 1..input_size |-> [j \in 1..Units |->
           Mul(par.sensory_W[i][j], sig[b][i][j])]]]
      sensory_rev_activation ==
        [b \in 1..Len(x) |-> [i \in 1..input_size |-> [j \in 1..Units |->
           Mul(sensory_w_activation[b][i][j], par.sensory_erev[i][j])]]]
  IN [num |-> [b \in 1..Len(x) |-> ReduceSumAxis1(sensory_rev_activation[b], input_size)],
      den |-> [b \in 1..Len(x) |-> ReduceSumAxis1(sensory_w_activation[b], input_size)]]

\* lines 359-369: one conductance-balance update; num and den per row and unit
Balance(v, sn) ==
  LET sig == Sigmoid(v, par.mu, par.sigma, Units)
      w_activation ==
        [b \in 1..Len(v) |-> [i \in 1..Units |-> [j \in 1..Units |->
           Mul(par.W[i][j], sig[b][i][j])]]]
      rev_activation ==
        [b \in 1..Len(v) |-> [i \in 1..Units |-> [j \in 1..Units |->
           Mul(w_activation[b][i][j], par.erev[i][j])]]]
      R == Rows(v, sn.num)
      w_numerator ==
        [b \in 1..R |-> [j \in 1..Units |->
           ReduceSumAxis1(Row(rev_activation, b), Units)[j] + Row(sn.num, b)[j]]]
      w_denominator ==
        [b \in 1..R |-> [j \in 1..Units |->
           ReduceSumAxis1(Row(w_activation, b), Units)[j] + Row(sn.den, b)[j]]]
  IN [numerator |->
        [b \in 1..R |-> [j \in 1..Units |->
           Mul(par.cm_t, Row(v, b)[j]) + Mul(par.gleak, par.vleak[j]) + w_numerator[b][j]]],
      denominator |->
        [b \in 1..R |-> [j \in 1..Units |-> par.cm_t + par.gleak + w_denominator[b][j]]]]

\* v_pre = numerator / denominator
Quotient(bal) ==
  [b \in 1..Len(bal.numerator) |-> [j \in 1..Units |->
     Div(bal.numerator[b][j], bal.denominator[b][j])]]

\* `for _ in range(self._sde_solver_unfolds)` of the drift and of the stepper
InnerLoopBoundOffByOne == sde_solver_unfolds + 1
InnerLoopBound == sde_solver_unfolds
OuterLoopBound == sde_solver_unfolds

-----------------------------------------------------------------------------
(* _sde_solver_diffusion, _sde_solver_euler_maruyama *)

SdeSolverDiffusion == Scale

\* the noise vector of a sub-step
NoiseTermResampled == [j \in 1..Units |-> brownian_motion[j] + outer_i * Scale]
NoiseTerm == brownian_motion

EulerSumAddsDiffusion(st, drift, noise) ==
  [b \in 1..Rows(st.t, drift) |-> [j \in 1..Units |->
     Row(st.t, b)[j] + Mul(Row(drift, b)[j], TimeStep * Scale)
                     + SdeSolverDiffusion + noise[j]]]

\* states + drift * self._time_step + diffusion * self._brownian_motion
EulerSum(st, drift, noise) ==
  [b \in 1..Rows(st.t, drift) |-> [j \in 1..Units |->
     Row(st.t, b)[j] + Mul(Row(drift, b)[j], TimeStep * Scale)
                     + Mul(SdeSolverDiffusion, noise[j])]]

RECURSIVE Flat(_)
Flat(t) == IF t = <<>> THEN <<>> ELSE Head(t) \o Flat(Tail(t))

\* tf.reshape(states, shape = [int(self._time_step), self.units])
ReshapeOk(t) == Len(Flat(t)) = TimeStep * units
Reshape(t) ==
  [b \in 1..TimeStep |-> [j \in 1..units |-> Flat(t)[(b - 1) * units + j]]]

-----------------------------------------------------------------------------
(* call: one action per step of the two nested loops *)

\* the caller may keep the outcome of one earlier call to compare later ones
\* with, and notes whether a call with other arguments came in between
Finish(r) ==
  /\ result' = r
  /\ pc' = "idle"
  /\ \/ remembered' = IF remembered.set /\ call_args # remembered.args
                        THEN [remembered EXCEPT !.between = TRUE]
                        ELSE remembered
     \/ /\ ~remembered.set
        /\ remembered' = [set |-> TRUE, args |-> call_args, result |-> r,
                          between |-> FALSE]

\* call(), lines 90-91: map the input, enter the stepper
CallBegin(k) ==
  /\ pc = "idle"
  /\ built
  /\ input_weights' = IF NeedsInputWeights THEN InputWeightsInit ELSE input_weights
  /\ input_biases' = IF NeedsInputBiases THEN InputBiasesInit ELSE input_biases
  /\ n_created' = n_created + (IF NeedsInputWeights THEN 1 ELSE 0)
                            + (IF NeedsInputBiases THEN 1 ELSE 0)
  /\ inputs' = MapWeightsAndBiases(ArgChoices[k].inputs, input_weights', input_biases')
  /\ states' = [wrapped |-> TRUE, t |-> ArgChoices[k].states]
  /\ call_args' = k
  /\ outer_i' = 0
  /\ inner_i' = 0
  /\ cnt' = NoCount
  /\ result' = NoResult
  /\ pc' = "outer"
  /\ UNCHANGED <<built, input_size, units, sde_solver_unfolds, par, brownian_motion,
                 v_pre, sens, denominator, remembered, n_sampled, added_noise,
                 assigned, fsvars>>

\* line 332 entering _sde_solver_drift, lines 350-356
DriftBegin ==
  /\ pc = "outer"
  /\ outer_i < OuterLoopBound
  /\ v_pre' = StatesHead(states)
  /\ sens' = SensorySums(inputs)
  /\ inner_i' = 0
  /\ cnt' = [cnt EXCEPT !.drifts = @ + 1, !.this_drift = 0]
  /\ pc' = "inner"
  /\ UNCHANGED <<built, input_size, units, sde_solver_unfolds, par, brownian_motion,
                 input_weights, input_biases, inputs, states, denominator, outer_i,
                 call_args, result, remembered, n_created, n_sampled, added_noise,
                 assigned, fsvars>>

\* lines 358-369: one iteration of the inner loop
DriftIter ==
  /\ pc = "inner"
  /\ inner_i < InnerLoopBound
  /\ LET bal == Balance(v_pre, sens)
     IN /\ denominator' = bal.denominator
        /\ v_pre' = Quotient(bal)
  /\ inner_i' = inner_i + 1
  /\ cnt' = [cnt EXCEPT !.inner = @ + 1, !.this_drift = @ + 1]
  /\ UNCHANGED <<built, input_size, units, sde_solver_unfolds, par, brownian_motion,
                 input_weights, input_biases, pc, inputs, states, sens, outer_i,
                 call_args, result, remembered, n_created, n_sampled, added_noise,
                 assigned, fsvars>>

\* lines 371, 333, 336-337: the drift returns v_pre; the state is updated and
\* reshaped; a reshape to a different element count raises
EulerUpdate ==
  /\ pc = "inner"
  /\ inner_i >= InnerLoopBound
  /\ LET sum == EulerSum(states, v_pre, NoiseTerm)
     IN IF ReshapeOk(sum)
        THEN /\ states' = [wrapped |-> FALSE, t |-> Reshape(sum)]
             /\ outer_i' = outer_i + 1
             /\ pc' = "outer"
             /\ UNCHANGED <<result, remembered>>
        ELSE /\ Finish([kind |-> "raised", output |-> <<>>, next_state |-> <<>>])
             /\ UNCHANGED <<states, outer_i>>
  /\ added_noise' = NoiseTerm
  /\ cnt' = [cnt EXCEPT !.updates = @ + 1]
  /\ UNCHANGED <<built, input_size, units, sde_solver_unfolds, par, brownian_motion,
                 input_weights, input_biases, inputs, v_pre, sens, denominator,
                 inner_i, call_args, n_created, n_sampled, assigned, fsvars>>

\* lines 339, 92-93: the loop is over; output = next_state
Return ==
  /\ pc = "outer"
  /\ outer_i >= OuterLoopBound
  /\ Finish([kind |-> "ok", output |-> states.t, next_state |-> states.t])
  /\ UNCHANGED <<built, input_size, units, sde_solver_unfolds, par, brownian_motion,
                 input_weights, input_biases, inputs, states, v_pre, sens,
                 denominator, outer_i, inner_i, call_args, cnt, n_created,
                 n_sampled, added_noise, assigned, fsvars>>

CallStep == DriftBegin \/ DriftIter \/ EulerUpdate \/ Return

FsIdle ==
  /\ tree = <<>>
  /\ tpc = "off"
  /\ tidx = 0
  /\ run = 0
  /\ before_keep = <<>>
  /\ after_first = <<>>

Init == CellInit /\ FsIdle

Next ==
  \/ Build
  \/ AssignZeroWeights
  \/ \E k \in 1..Len(ArgChoices) : CallBegin(k)
  \/ DriftBegin
  \/ DriftIter
  \/ EulerUpdate
  \/ Return

Spec == Init /\ [][Next]_vars

\* a running call always takes its next step
FairSpec == Spec /\ WF_vars(CallStep)

-----------------------------------------------------------------------------
(* The stepper and the drift as functions of their arguments *)

\* _sde_solver_drift: k conductance-balance updates from v
RECURSIVE DriftFrom(_, _, _)
DriftFrom(v, sn, k) ==
  IF k = 0 THEN v ELSE DriftFrom(Quotient(Balance(v, sn)), sn, k - 1)
SdeSolverDrift(x, st) == DriftFrom(StatesHead(st), SensorySums(x), InnerLoopBound)

\* what call() hands to the stepper for argument k
MappedInput(k) == MapWeightsAndBiases(ArgChoices[k].inputs, input_weights, input_biases)
PassedState(k) == [wrapped |-> TRUE, t |-> ArgChoices[k].states]
Zeros(n) == Const(n, 0)
ZeroWeights == par.sensory_W = Matrix(InputSize, 0) /\ par.W = Matrix(Units, 0)

-----------------------------------------------------------------------------
(* Claims *)

\* C1: determinism of the step: a call with the same (inputs, states) as an
\* earlier call under the same parameters and noise vector ends exactly as that
\* call did (same output and next state), whatever calls came in between.
Determinism ==
  (pc = "idle" /\ remembered.set /\ call_args = remembered.args)
     => result = remembered.result
DeterminismWitness ==
  /\ pc = "idle" /\ remembered.set /\ remembered.between
  /\ call_args = remembered.args
  /\ result.kind = "ok"
  /\ sde_solver_unfolds = SdeSolverUnfolds

\* C2: no step of a call changes a parameter, the noise vector, input_size or
\* units; the noise vector is sampled once, in build, and it is the vector
\* added at every outer sub-step.
ForwardStep == pc # "idle" \/ pc' # "idle"
ForwardFrame ==
  [][ForwardStep => /\ par' = par
                    /\ brownian_motion' = brownian_motion
                    /\ input_size' = input_size
                    /\ units' = units
                    /\ n_sampled' = n_sampled]_vars
NoiseSampledOnce ==
  /\ n_sampled = (IF built THEN 1 ELSE 0)
  /\ added_noise # <<>> => added_noise = brownian_motion
ForwardNeverMutates == ForwardFrame /\ []NoiseSampledOnce
ForwardNeverMutatesWitness ==
  /\ pc = "idle" /\ result.kind = "ok" /\ remembered.between
  /\ added_noise # <<>> /\ added_noise # Zeros(Units)
  /\ par = InitVariables(WInitMax, "alt", "hi")

\* C3 (as claimed): every call returns a next state of the shape of the state
\* tensor passed in, whatever its batch dimension.
ShapePreserved ==
  (pc = "idle" /\ call_args # 0 /\ result.kind # "none")
     => /\ result.kind = "ok"
        /\ Shape(result.next_state) = Shape(ArgChoices[call_args].states)

\* C4: with sensory_W and W all zero, after k inner iterations of a drift
\* v_pre is the k-fold leak update (cm_t*v + gleak*vleak) / (cm_t + gleak) of
\* the previous state: the input plays no part in it.
LeakUpdate(v) ==
  [b \in 1..Len(v) |-> [j \in 1..Units |->
     Div(Mul(par.cm_t, v[b][j]) + Mul(par.gleak, par.vleak[j]), par.cm_t + par.gleak)]]
RECURSIVE LeakN(_, _)
LeakN(v, k) == IF k = 0 THEN v ELSE LeakN(LeakUpdate(v), k - 1)
ZeroWeightLeak ==
  (pc = "inner" /\ ZeroWeights) => v_pre = LeakN(StatesHead(states), inner_i)
ZeroWeightLeakWitness ==
  /\ pc = "inner" /\ ZeroWeights
  /\ inner_i = SdeSolverUnfolds
  /\ outer_i > 0
  /\ call_args = 2
  /\ v_pre # StatesHead(states)

\* C5: with an all-zero noise vector every outer sub-step is exactly
\* state := state + drift(input, state) * time_step (in the stepper's [1, units]
\* shape), and the call returns the state its n-th such sub-step left.
DetEulerSum(st, drift) ==
  Reshape([b \in 1..Rows(st.t, drift) |-> [j \in 1..Units |->
     Row(st.t, b)[j] + Mul(Row(drift, b)[j], TimeStep * Scale)]])
\* (the drift is evaluated once and bound to d)
DetEulerUpdate(x, st) ==
  CHOOSE r \in {DetEulerSum(st, d) : d \in {SdeSolverDrift(x, st)}} : TRUE
ZeroNoiseSubStep ==
  [][(pc = "inner" /\ pc' = "outer" /\ brownian_motion = Zeros(Units))
        => states'.t = DetEulerUpdate(inputs, states)]_vars
ZeroNoiseResult ==
  (pc = "idle" /\ result.kind = "ok" /\ brownian_motion = Zeros(Units))
     => /\ result.next_state = states.t
        /\ result.output = states.t
        /\ cnt.updates = sde_solver_unfolds
ZeroNoiseEuler == ZeroNoiseSubStep /\ []ZeroNoiseResult
ZeroNoiseEulerWitness ==
  /\ pc = "idle" /\ result.kind = "ok" /\ brownian_motion = Zeros(Units)
  /\ sde_solver_unfolds = SdeSolverUnfolds
  /\ ~assigned
  /\ result.next_state # ArgChoices[call_args].states

\* C6 (as claimed): with units 4, input_size 3, 6 sub-steps, time_step 1 and the
\* parameters as build left them, the call on input [0.1, 0.2, 0.3] and state
\* [0, 0, 0, 0] returns a next state with every component strictly in (-1, 1).
EndToEndBounded ==
  (/\ pc = "idle" /\ result.kind = "ok" /\ call_args = 1
   /\ ~assigned /\ sde_solver_unfolds = SdeSolverUnfolds)
     => \A j \in 1..Units : /\ result.next_state[1][j] > -Scale
                            /\ result.next_state[1][j] < Scale

\* C7: the input mapping's two vectors are created by the first invocation
\* only (weights all 1, biases all 0, length input_size) and reused unchanged
\* by every later one; each invocation returns input * weight + bias, which
\* with these values is the input itself.
InputMappingLazy ==
  /\ n_created = (IF call_args = 0 THEN 0 ELSE 2)
  /\ call_args = 0 => (input_weights = <<>> /\ input_biases = <<>>)
  /\ call_args # 0 =>
       /\ input_weights = [i \in 1..input_size |-> Scale]
       /\ input_biases = [i \in 1..input_size |-> 0]
  /\ pc # "idle" =>
       /\ inputs = [r \in 1..Len(ArgChoices[call_args].inputs) |->
                     [i \in 1..input_size |->
                        Mul(ArgChoices[call_args].inputs[r][i], input_weights[i])
                          + input_biases[i]]]
       /\ inputs = ArgChoices[call_args].inputs
InputMappingLazyWitness ==
  /\ pc = "outer" /\ remembered.between
  /\ n_created = 2
  /\ inputs = <<Input2>>

\* C8: a call with sub-step count n that returns has made exactly n state
\* updates and n drift computations of exactly n conductance-balance updates
\* each (n * n in all; one per drift when n = 1); every call ends.
LoopStructure ==
  LET n == sde_solver_unfolds
  IN /\ pc = "outer" => /\ cnt.updates = outer_i /\ outer_i <= n
                        /\ cnt.drifts = cnt.updates
                        /\ cnt.inner = n * cnt.updates
     /\ pc = "inner" => /\ cnt.updates = outer_i /\ outer_i < n
                        /\ cnt.drifts = cnt.updates + 1
                        /\ cnt.this_drift = inner_i /\ inner_i <= n
                        /\ cnt.inner = n * cnt.updates + cnt.this_drift
     /\ (pc = "idle" /\ result.kind = "ok") =>
                        /\ cnt.updates = n
                        /\ cnt.drifts = n
                        /\ cnt.inner = n * n
CallEnds == (pc # "idle") ~> (pc = "idle")
LoopStructureAndTermination == []LoopStructure /\ CallEnds
LoopStructureWitness ==
  /\ pc = "idle" /\ result.kind = "ok"
  /\ sde_solver_unfolds = SdeSolverUnfolds
  /\ cnt.inner = SdeSolverUnfolds * SdeSolverUnfolds
  /\ remembered.set /\ remembered.result.kind = "ok"

\* C9: while the parameters are as build left them, the denominator of every
\* conductance-balance update is at least 1.5 (= cm_t + gleak), so positive.
DenominatorPositive ==
  (~assigned /\ denominator # <<>>) =>
     \A b \in 1..Len(denominator) : \A j \in 1..Units :
        denominator[b][j] >= (3 * Scale) \div 2
DenominatorPositiveWitness ==
  /\ ~assigned /\ pc = "inner" /\ inner_i = SdeSolverUnfolds
  /\ par.W = Matrix(Units, WInitMax)
  /\ \E j \in 1..Units : denominator[1][j] > 2 * Scale

-----------------------------------------------------------------------------
(* templet.py.  A path is the sequence of its components, relative to the   *)
(* working directory <<>>; tree maps a path to "absent", "dir", "empty" (a   *)
(* file of no content) or "data" (a file with content).                      *)

Join(d, name) == Append(d, name)
Parent(p) == SubSeq(p, 1, Len(p) - 1)

\* dirs, lines 4-14, and files, lines 20-26
dirs == << <<"data", "raw">>, <<"data", "processed">>, <<"docs">>, <<"config">>,
           <<"references">>, <<"reports">>, <<"notebooks">>, <<"saved_models">>,
           <<"src">> >>
files == << <<".gitignore">>, <<"requirements.txt">>, <<"src", "__init__.py">>,
            <<"config", "params.yaml">>, <<"config", "config.yaml">> >>
Range(q) == {q[i] : i \in 1..Len(q)}

\* every path the model knows: the script's, their parents, and other entries
OtherEntries == { <<"data", "raw", "x.csv">>, <<"docs", "readme.md">> }
Paths ==
  Range(dirs) \cup Range(files) \cup {<<"data">>} \cup OtherEntries
    \cup {Join(d, ".gitkeep") : d \in Range(dirs)}

IsDir(t, p) == p = <<>> \/ (p \in Paths /\ t[p] = "dir")
Exists(t, p) == p = <<>> \/ (p \in Paths /\ t[p] # "absent")

\* os.mkdir(p): needs an existing parent directory and no entry at p
MkdirOk(t, p) == IsDir(t, Parent(p)) /\ ~Exists(t, p)

\* os.makedirs(p, exist_ok = True): the missing parent is made first; an
\* existing directory is accepted, any other failure of mkdir is raised
RECURSIVE MakeDirs(_, _)
MakeDirs(t, p) ==
  LET made == IF Len(p) > 1 /\ ~Exists(t, Parent(p))
              THEN MakeDirs(t, Parent(p)).tree
              ELSE t
  IN IF MkdirOk(made, p) THEN [ok |-> TRUE, tree |-> [made EXCEPT ![p] = "dir"]]
     ELSE IF IsDir(made, p) THEN [ok |-> TRUE, tree |-> made]
     ELSE [ok |-> FALSE, tree |-> made]

\* open(p, "w") and close: creates or truncates the file; a directory at p or
\* a missing parent directory raises
OpenA(t, p) ==
  IF IsDir(t, Parent(p)) /\ ~IsDir(t, p)
  THEN [ok |-> TRUE, tree |-> [t EXCEPT ![p] = IF @ = "data" THEN "data" ELSE "empty"]]
  ELSE [ok |-> FALSE, tree |-> t]
OpenW(t, p) ==
  IF IsDir(t, Parent(p)) /\ ~IsDir(t, p)
  THEN [ok |-> TRUE, tree |-> [t EXCEPT ![p] = "empty"]]
  ELSE [ok |-> FALSE, tree |-> t]

\* os.listdir(d)
ListDir(t, d) == {p \in Paths : Parent(p) = d /\ t[p] # "absent"}

\* the starting trees: independent choices for five subtrees
TreeOf(S) ==
  [p \in Paths |-> IF \E e \in S : e[1] = p
                   THEN (CHOOSE e \in S : e[1] = p)[2] ELSE "absent"]
DataChoices ==
  { {}, {<< <<"data">>, "empty" >>}, {<< <<"data">>, "dir" >>},
    {<< <<"data">>, "dir" >>, << <<"data", "raw">>, "dir" >>},
    {<< <<"data">>, "dir" >>, << <<"data", "raw">>, "dir" >>,
     << <<"data", "raw", "x.csv">>, "data" >>} }
DocsChoices ==
  { {}, {<< <<"docs">>, "data" >>}, {<< <<"docs">>, "dir" >>},
    {<< <<"docs">>, "dir" >>, << <<"docs", ".gitkeep">>, "data" >>},
    {<< <<"docs">>, "dir" >>, << <<"docs", ".gitkeep">>, "dir" >>},
    {<< <<"docs">>, "dir" >>, << <<"docs", "readme.md">>, "data" >>} }
ConfigChoices ==
  { {}, {<< <<"config">>, "dir" >>},
    {<< <<"config">>, "dir" >>, << <<"config", "params.yaml">>, "data" >>},
    {<< <<"config">>, "dir" >>, << <<"config", "params.yaml">>, "dir" >>} }
TopFileChoices ==
  { {}, {<< <<"requirements.txt">>, "data" >>}, {<< <<"requirements.txt">>, "dir" >>} }
SrcChoices ==
  { {}, {<< <<"src">>, "dir" >>},
    {<< <<"src">>, "dir" >>, << <<"src", ".gitkeep">>, "empty" >>} }

ScaffoldInit ==
  /\ CellInit
  /\ sde_solver_unfolds = SdeSolverUnfolds
  /\ \E a \in DataChoices, b \in DocsChoices, c \in ConfigChoices,
        d \in TopFileChoices, e \in SrcChoices :
       tree = TreeOf(a \cup b \cup c \cup d \cup e)
  /\ tpc = "dirs"
  /\ tidx = 1
  /\ run = 1
  /\ before_keep = <<>>
  /\ after_first = <<>>

\* lines 17-18: one iteration of the directory loop
MakeDirStep ==
  /\ tpc = "dirs"
  /\ tidx <= Len(dirs)
  /\ LET r == MakeDirs(tree, dirs[tidx])
     IN /\ tree' = r.tree
        /\ IF r.ok THEN /\ tpc' = (IF tidx = Len(dirs) THEN "files" ELSE "dirs")
                        /\ tidx' = (IF tidx = Len(dirs) THEN 1 ELSE tidx + 1)
                   ELSE /\ tpc' = "failed"
                        /\ tidx' = tidx
  /\ UNCHANGED <<run, before_keep, after_first, cellvars>>

\* lines 28-30: one iteration of the file loop
WriteFileStep ==
  /\ tpc = "files"
  /\ tidx <= Len(files)
  /\ LET r == OpenW(tree, files[tidx])
     IN /\ tree' = r.tree
        /\ IF r.ok THEN /\ tpc' = (IF tidx = Len(files) THEN "keep" ELSE "files")
                        /\ tidx' = (IF tidx = Len(files) THEN 1 ELSE tidx + 1)
                   ELSE /\ tpc' = "failed"
                        /\ tidx' = tidx
  /\ UNCHANGED <<run, before_keep, after_first, cellvars>>

\* lines 33-36: one iteration of the .gitkeep loop (before_keep keeps the tree
\* the loop started from)
GitKeepStep ==
  /\ tpc = "keep"
  /\ tidx <= Len(dirs)
  /\ before_keep' = (IF tidx = 1 THEN tree ELSE before_keep)
  /\ LET d == dirs[tidx]
         r == IF ~IsDir(tree, d) THEN [ok |-> FALSE, tree |-> tree]
              ELSE IF ListDir(tree, d) = {} THEN OpenW(tree, Join(d, ".gitkeep"))
              ELSE [ok |-> TRUE, tree |-> tree]
     IN /\ tree' = r.tree
        /\ IF r.ok THEN /\ tpc' = (IF tidx = Len(dirs) THEN "done" ELSE "keep")
                        /\ tidx' = (IF tidx = Len(dirs) THEN 1 ELSE tidx + 1)
                   ELSE /\ tpc' = "failed"
                        /\ tidx' = tidx
  /\ UNCHANGED <<run, after_first, cellvars>>

\* the script is run a second time in the tree the first run left
RunAgain ==
  /\ tpc = "done"
  /\ run = 1
  /\ after_first' = tree
  /\ run' = 2
  /\ tpc' = "dirs"
  /\ tidx' = 1
  /\ UNCHANGED <<tree, before_keep, cellvars>>

ScaffoldNext == MakeDirStep \/ WriteFileStep \/ GitKeepStep \/ RunAgain

ScaffoldSpec == ScaffoldInit /\ [][ScaffoldNext]_vars

====
